---- MODULE Spec2Model ----
(***************************************************************************)
(* A model of crawler.py: the dispatch loop of crawl_websites, the worker  *)
(* threads running crawl_page_with_rule, the files they write under data/  *)
(* and the log sinks under results/<date>/.                                *)
(*                                                                         *)
(* Text is a sequence of one-token strings.  The tokens "S" and "/S" stand *)
(* for the lexemes <script> and </script>; every other token is one        *)
(* character.  A Python value that may be None is a record                 *)
(* [isNone, s]; a URL is a pair <<hostname, path>>.                        *)
(***************************************************************************)
EXTENDS Integers, Sequences, FiniteSets, TLC

\* ------------------------------------------------------------------ bounds
MaxUrls == 2
MaxThreads == 2
MaxTitleLen == 2

\* ------------------------------------------------------- Python values
None == [isNone |-> TRUE, s |-> <<>>]
Str(t) == [isNone |-> FALSE, s |-> t]
\* truth value of an Optional[str]: None and '' are falsy
Truthy(v) == ~v.isNone /\ v.s # <<>>

NoTitle == <<"N", "o", " ", "T", "i", "t", "l", "e">>
NoBody == <<"N", "o", " ", "B", "o", "d", "y">>

\* ------------------------------------------------------- str helpers
IsSpace(c) == c = " "

RECURSIVE lstrip(_)
lstrip(t) == IF t # <<>> /\ IsSpace(Head(t)) THEN lstrip(Tail(t)) ELSE t

RECURSIVE rstrip(_)
rstrip(t) ==
    IF t # <<>> /\ IsSpace(t[Len(t)]) THEN rstrip(SubSeq(t, 1, Len(t) - 1)) ELSE t

strip(t) == rstrip(lstrip(t))

\* str.replace(old, new); an empty old matches before every character and at the end
RECURSIVE replace(_, _, _)
replace(t, old, new) ==
    IF old = <<>>
    THEN IF t = <<>> THEN new ELSE new \o <<Head(t)>> \o replace(Tail(t), old, new)
    ELSE IF Len(t) < Len(old) THEN t
    ELSE IF SubSeq(t, 1, Len(old)) = old
         THEN new \o replace(SubSeq(t, Len(old) + 1, Len(t)), old, new)
         ELSE <<Head(t)>> \o replace(Tail(t), old, new)

\* ' '.join(parts)
RECURSIVE join(_)
join(parts) ==
    IF parts = <<>> THEN <<>>
    ELSE IF Len(parts) = 1 THEN parts[1]
    ELSE parts[1] \o <<" ">> \o join(Tail(parts))

\* the character class of r'[\/:*?"<>|]': in it \/ is an escaped slash, so the
\* backslash itself is not a member
invalid_chars == {"/", ":", "*", "?", "\"", "<", ">", "|"}

clean_filename(title) == SelectSeq(title, LAMBDA c : c \notin invalid_chars)

apply_title_transform(title, title_search, title_replace) ==
    replace(title, title_search, title_replace)

\* index of the first token at or after k that is in toks, 0 when there is none
RECURSIVE FirstFrom(_, _, _)
FirstFrom(t, k, toks) ==
    IF k > Len(t) THEN 0
    ELSE IF t[k] \in toks THEN k
    ELSE FirstFrom(t, k + 1, toks)

\* re.sub(r'<script.*?</script>', '', t, flags=re.DOTALL)
RECURSIVE strip_scripts(_)
strip_scripts(t) ==
    IF t = <<>> THEN <<>>
    ELSE IF Head(t) = "S" /\ FirstFrom(t, 2, {"/S"}) # 0
         THEN strip_scripts(SubSeq(t, FirstFrom(t, 2, {"/S"}) + 1, Len(t)))
         ELSE <<Head(t)>> \o strip_scripts(Tail(t))

\* the tokens that end with '>'
ClosesTag == {">", "S", "/S"}

\* re.sub(r'<.*?>', '', t): from a '<' to the first '>' after it
RECURSIVE strip_tags(_)
strip_tags(t) ==
    IF t = <<>> THEN <<>>
    ELSE IF Head(t) \in {"S", "/S"} THEN strip_tags(Tail(t))
    ELSE IF Head(t) = "<" /\ FirstFrom(t, 2, ClosesTag) # 0
         THEN strip_tags(SubSeq(t, FirstFrom(t, 2, ClosesTag) + 1, Len(t)))
         ELSE <<Head(t)>> \o strip_tags(Tail(t))

\* ------------------------------------------------------- pages
\* An element of a parsed page: absent, present without the attribute read,
\* or present with text.
Absent == [kind |-> "absent", text |-> <<>>]
NoAttr == [kind |-> "noattr", text |-> <<>>]
Elem(t) == [kind |-> "text", text |-> t]

\* h1: first <h1>; sel: texts of the elements the host's rule selects;
\* meta: <meta name="description">; p: first <p>; og: <meta property="og:image">
Page(h1, sel, meta, p, og) ==
    [kind |-> "page", h1 |-> h1, sel |-> sel, meta |-> meta, p |-> p, og |-> og]
NoPage(kind) ==
    [kind |-> kind, h1 |-> Absent, sel |-> <<>>, meta |-> Absent, p |-> Absent, og |-> Absent]

\* result of a call: raised (KeyError), or the returned value(s)
Returned3(title, body, og) == [raised |-> FALSE, title |-> title, body |-> body, og |-> og]
Raised3 == [raised |-> TRUE, title |-> None, body |-> None, og |-> None]

\* the fallback chain with the first paragraph preferred to the meta description
extract_default_paragraph_first(page) ==
    IF page.p.kind # "absent" /\ page.p.text # <<>>
    THEN [raised |-> FALSE, s |-> page.p.text]
    ELSE IF page.meta.kind = "noattr" THEN [raised |-> TRUE, s |-> <<>>]
    ELSE [raised |-> FALSE,
          s |-> IF page.meta.kind = "text" /\ page.meta.text # <<>>
                THEN page.meta.text ELSE NoBody]

extract_default_body_content(page) ==
    IF page.meta.kind = "noattr" THEN [raised |-> TRUE, s |-> <<>>]
    ELSE LET body_content == IF page.meta.kind = "text" THEN page.meta.text ELSE <<>>
         IN  IF body_content # <<>> THEN [raised |-> FALSE, s |-> body_content]
             ELSE [raised |-> FALSE,
                   s |-> IF page.p.kind # "absent" THEN page.p.text ELSE NoBody]

get_page_content_with_rule(response, body_class_rule) ==
    IF response.kind # "page" THEN Returned3(None, None, None)
    ELSE LET title == IF response.h1.kind # "absent" THEN response.h1.text ELSE NoTitle
             selected == IF body_class_rule # <<>> THEN join(response.sel) ELSE <<>>
             dflt == extract_default_body_content(response)
         IN  IF selected = <<>> /\ dflt.raised THEN Raised3
             ELSE IF response.og.kind = "noattr" THEN Raised3
             ELSE LET body_text == IF selected # <<>> THEN selected ELSE dflt.s
                      og_image_url == IF response.og.kind = "text"
                                      THEN Str(response.og.text) ELSE None
                  IN  Returned3(Str(title),
                                Str(strip(strip_tags(strip_scripts(body_text)))),
                                og_image_url)

\* ------------------------------------------------------- the environment
\* The hosts, their config/<hostname>.txt files and what their servers answer.
Hosts == {"a", "b", "c"}

\* requests.utils.urlparse(url).hostname
hostname(url) == url[1]

\* config/<hostname>.txt, line delay=
get_delay(host) == CASE host = "a" -> 1 [] host = "b" -> 0 [] OTHER -> 0 - 1

\* config/<hostname>.txt, line body_class=
get_body_class(host) == IF host = "a" THEN <<".", "c">> ELSE <<>>

UrlPage1 == <<"a", "/1">>
UrlPage2 == <<"a", "/2">>
UrlDown == <<"b", "/f">>
UrlBare == <<"b", "/n">>
UrlEmptyBody == <<"b", "/e">>
UrlMetaNoContent == <<"b", "/k">>
UrlBadImage == <<"b", "/g">>
UrlNegDelay == <<"c", "/f">>

UrlSet ==
    {UrlPage1, UrlPage2, UrlDown, UrlBare, UrlEmptyBody, UrlMetaNoContent,
     UrlBadImage, UrlNegDelay}

\* the responses requests.get(url, timeout=10) can end with, per URL
Web(url) ==
    CASE url = UrlPage1 ->
            {Page(Elem(<<"a">>), <<<<"x">>, <<"y">>>>, Absent, Absent, Elem(<<"i">>))}
      [] url = UrlPage2 ->
            {Page(Elem(<<" ", "a", "/">>), <<>>, Elem(<<"<", "b", ">", "m", " ">>),
                  Absent, Elem(<<"i">>))}
      [] url = UrlDown -> {NoPage("timeout"), NoPage("error"), NoPage("status")}
      [] url = UrlBare -> {Page(Absent, <<>>, Absent, Absent, Absent)}
      [] url = UrlEmptyBody ->
            {Page(Elem(<<"b">>), <<>>, Absent, Elem(<<" ">>), Absent)}
      [] url = UrlMetaNoContent ->
            {Page(Elem(<<"b">>), <<>>, NoAttr, Absent, Absent)}
      [] url = UrlBadImage ->
            {Page(Elem(<<"g">>), <<>>, Absent, Elem(<<"p">>), Elem(<<"j">>))}
      [] OTHER -> {NoPage("timeout")}

\* urljoin(url, og_image_url) for a relative reference
urljoin(url, ref) == <<hostname(url), ref>>

\* how requests.get(image_url, stream=True) can end: "ok" a 200 with bytes,
\* "empty" a 200 with no bytes, "status" another status, "error" a
\* RequestException, "hang" no answer at all (the call has no timeout)
ImgWeb(image_url) ==
    IF hostname(image_url) = "a" THEN {"ok"} ELSE {"empty", "status", "error", "hang"}

\* (title_search, title_replace) pairs of the global configuration
Transforms == {<<<<>>, <<>>>>, <<<<"a">>, <<"b">>>>}

RECURSIVE SeqsUpTo(_, _)
SeqsUpTo(S, n) ==
    IF n = 0 THEN {<<>>}
    ELSE SeqsUpTo(S, n - 1) \cup
         {Append(q, x) : q \in {r \in SeqsUpTo(S, n - 1) : Len(r) = n - 1}, x \in S}

\* ------------------------------------------------------- state
VARIABLES
    urls,            \* crawl_websites argument
    max_threads,     \* crawl_websites argument
    title_search,    \* crawl_websites argument
    title_replace,   \* crawl_websites argument
    d_pc,            \* where the dispatch loop is
    i,               \* index in urls of the iteration of the for loop
    delay,           \* the local delay of the iteration
    sleep_left,      \* seconds time.sleep still has to wait
    now,             \* seconds the dispatch loop has slept so far
    semaphore,       \* the counter of threading.Semaphore(max_threads)
    threads,         \* the list threads: worker w runs urls[w]
    launched_at,     \* launched_at[w]: value of now at thread.start() of w
    j,               \* index in threads of the join loop
    t_pc,            \* t_pc[w]: where worker w is
    t_rule,          \* t_rule[w]: the body_class_rule argument of worker w
    t_response,      \* t_response[w]: what the page request of w ended with
    t_res,           \* t_res[w]: what get_page_content_with_rule returned to w
    t_image,         \* t_image[w]: what the image request of w ended with
    image_requests,  \* image_requests[w]: image requests w has issued
    wrote,           \* wrote[w]: the suffixes of the files w has written (history)
    files,           \* data/: <<filename, suffix>> -> [by, data]
    log_dir,         \* whether results/<date> exists
    successes,       \* the rows of successes.csv
    fails            \* the lines of fails.txt

inputs == <<urls, max_threads, title_search, title_replace>>
dvars == <<d_pc, i, delay, sleep_left, now, semaphore, threads, launched_at, j>>
tlocal == <<t_rule, t_response, t_res, t_image, image_requests, wrote>>
shared == <<files, log_dir, successes, fails>>
vars == <<inputs, dvars, t_pc, tlocal, shared>>

Workers == 1..Len(urls)

NoResponse == NoPage("none")

Init ==
    /\ urls \in SeqsUpTo(UrlSet, MaxUrls)
    /\ max_threads \in 0..MaxThreads
    /\ \E tr \in Transforms : title_search = tr[1] /\ title_replace = tr[2]
    /\ d_pc = "for"
    /\ i = 1
    /\ delay = 0
    /\ sleep_left = 0
    /\ now = 0
    /\ semaphore = max_threads
    /\ threads = <<>>
    /\ launched_at = <<>>
    /\ j = 1
    /\ t_pc = [w \in Workers |-> "unstarted"]
    /\ t_rule = [w \in Workers |-> <<>>]
    /\ t_response = [w \in Workers |-> NoResponse]
    /\ t_res = [w \in Workers |-> Returned3(None, None, None)]
    /\ t_image = [w \in Workers |-> "none"]
    /\ image_requests = [w \in Workers |-> 0]
    /\ wrote = [w \in Workers |-> {}]
    /\ files = <<>>
    /\ log_dir = FALSE
    /\ successes = <<>>
    /\ fails = <<>>

\* ------------------------------------------------------- crawl_websites
\* a join that does not wait: true of any started thread
FinishedOrRunning(w) == t_pc[w] # "unstarted"

\* a thread object that has terminated, by returning or by an uncaught exception
Finished(w) == t_pc[w] \in {"done", "raised"}

\* a loop that gives up once a worker has died
HasNextUnlessRaised == i <= Len(urls) /\ \A w \in 1..(i - 1) : t_pc[w] # "raised"

\* for url in urls: there is another url
HasNext == i <= Len(urls)

\* for url in urls: the next iteration resolves the host's delay, or the loop ends
ForNext ==
    /\ d_pc = "for"
    /\ IF HasNext
       THEN /\ delay' = get_delay(hostname(urls[i]))
            /\ d_pc' = "acquire"
       ELSE /\ d_pc' = "join"
            /\ UNCHANGED delay
    /\ UNCHANGED <<inputs, i, sleep_left, now, semaphore, threads, launched_at, j,
                   t_pc, tlocal, shared>>

\* semaphore.acquire(): blocks while the counter is 0
Acquire ==
    /\ d_pc = "acquire"
    /\ semaphore > 0
    /\ semaphore' = semaphore - 1
    /\ d_pc' = "start"
    /\ UNCHANGED <<inputs, i, delay, sleep_left, now, threads, launched_at, j,
                   t_pc, tlocal, shared>>

\* thread = threading.Thread(...); thread.start(); threads.append(thread)
Start ==
    /\ d_pc = "start"
    /\ t_pc' = [t_pc EXCEPT ![i] = "fetch"]
    /\ t_rule' = [t_rule EXCEPT ![i] = get_body_class(hostname(urls[i]))]
    /\ threads' = Append(threads, i)
    /\ launched_at' = Append(launched_at, now)
    /\ sleep_left' = delay
    /\ d_pc' = "sleep"
    /\ UNCHANGED <<inputs, i, delay, now, semaphore, j,
                   t_response, t_res, t_image, image_requests, wrote, shared>>

\* time.sleep(delay) with a negative delay raises ValueError out of crawl_websites
SleepRaise ==
    /\ d_pc = "sleep"
    /\ delay < 0
    /\ d_pc' = "raised"
    /\ UNCHANGED <<inputs, i, delay, sleep_left, now, semaphore, threads, launched_at, j,
                   t_pc, tlocal, shared>>

\* one second of time.sleep(delay) passes
SleepTick ==
    /\ d_pc = "sleep"
    /\ sleep_left > 0
    /\ sleep_left' = sleep_left - 1
    /\ now' = now + 1
    /\ UNCHANGED <<inputs, d_pc, i, delay, semaphore, threads, launched_at, j,
                   t_pc, tlocal, shared>>

\* a sleep that may return before its time is over
SleepDoneEarly ==
    /\ d_pc = "sleep"
    /\ delay >= 0
    /\ d_pc' = "release"
    /\ UNCHANGED <<inputs, i, delay, sleep_left, now, semaphore, threads, launched_at, j,
                   t_pc, tlocal, shared>>

\* time.sleep(delay) returns
SleepDone ==
    /\ d_pc = "sleep"
    /\ sleep_left = 0
    /\ d_pc' = "release"
    /\ UNCHANGED <<inputs, i, delay, sleep_left, now, semaphore, threads, launched_at, j,
                   t_pc, tlocal, shared>>

\* a release that is left to the worker, which never performs it
released_by_worker(value) == value

\* a release that gives back two units
released_twice(value) == value + 2

\* Semaphore.release(): the counter after the call
released(value) == value + 1

\* semaphore.release(), end of the iteration
Release ==
    /\ d_pc = "release"
    /\ semaphore' = released(semaphore)
    /\ i' = i + 1
    /\ d_pc' = "for"
    /\ UNCHANGED <<inputs, delay, sleep_left, now, threads, launched_at, j,
                   t_pc, tlocal, shared>>

\* thread.join() of the next thread of the list returns once it has terminated
Join ==
    /\ d_pc = "join"
    /\ j <= Len(threads)
    /\ Finished(threads[j])
    /\ j' = j + 1
    /\ UNCHANGED <<inputs, d_pc, i, delay, sleep_left, now, semaphore, threads,
                   launched_at, t_pc, tlocal, shared>>

\* the join loop is over: crawl_websites returns
Return ==
    /\ d_pc = "join"
    /\ j > Len(threads)
    /\ d_pc' = "returned"
    /\ UNCHANGED <<inputs, i, delay, sleep_left, now, semaphore, threads, launched_at, j,
                   t_pc, tlocal, shared>>

\* ------------------------------------------------------- crawl_page_with_rule
\* title after apply_title_transform and strip
Title(w) == strip(apply_title_transform(t_res[w].title.s, title_search, title_replace))

Filename(w) == clean_filename(Title(w))

ImageUrl(w) == urljoin(urls[w], t_res[w].og.s)

Exists(path) == path \in DOMAIN files

\* open(path, 'w') followed by write(data), by worker w
WriteFile(path, w, data) == (path :> [by |-> w, data |-> data]) @@ files

\* title, body, og_image_url = get_page_content_with_rule(...); if title and body,
\* for the response the page request ended with
Fetched(w, response) ==
    LET res == get_page_content_with_rule(response, t_rule[w])
    IN  /\ t_response' = [t_response EXCEPT ![w] = response]
        /\ t_res' = [t_res EXCEPT ![w] = res]
        /\ t_pc' = [t_pc EXCEPT ![w] =
                      IF res.raised THEN "raised"
                      ELSE IF Truthy(res.title) /\ Truthy(res.body) THEN "write_txt"
                      ELSE "fail_exists"]

\* the first statements of crawl_page_with_rule, with what the server of the URL answers
Fetch(w) ==
    /\ t_pc[w] = "fetch"
    /\ \E response \in Web(urls[w]) : Fetched(w, response)
    /\ UNCHANGED <<inputs, dvars, t_rule, t_image, image_requests, wrote, shared>>

\* output_file.write(f'{title}\n---\n{body}\n')
WriteTxt(w) ==
    /\ t_pc[w] = "write_txt"
    /\ files' = WriteFile(<<Filename(w), ".txt">>, w, <<Title(w), "---", t_res[w].body.s>>)
    /\ t_pc' = [t_pc EXCEPT ![w] = "save_url"]
    /\ wrote' = [wrote EXCEPT ![w] = @ \cup {".txt"}]
    /\ UNCHANGED <<inputs, dvars, t_rule, t_response, t_res, t_image, image_requests,
                   log_dir, successes, fails>>

\* save_url(url, filename); if og_image_url
\* the sidecar write with the success row appended before the image is saved
SaveUrlAndLog(w) ==
    /\ t_pc[w] = "save_url"
    /\ files' = WriteFile(<<Filename(w), "-url.txt">>, w, urls[w])
    /\ successes' = Append(successes, [by |-> w, url |-> urls[w], status |-> "200"])
    /\ t_pc' = [t_pc EXCEPT ![w] =
                  IF Truthy(t_res[w].og) THEN "image_exists" ELSE "done"]
    /\ wrote' = [wrote EXCEPT ![w] = @ \cup {"-url.txt"}]
    /\ UNCHANGED <<inputs, dvars, t_rule, t_response, t_res, t_image, image_requests,
                   log_dir, fails>>

\* the worker goes on without writing the sidecar
SaveUrlSkipped(w) ==
    /\ t_pc[w] = "save_url"
    /\ t_pc' = [t_pc EXCEPT ![w] =
                  IF Truthy(t_res[w].og) THEN "image_exists" ELSE "success_exists"]
    /\ UNCHANGED <<inputs, dvars, tlocal, shared>>

SaveUrl(w) ==
    /\ t_pc[w] = "save_url"
    /\ files' = WriteFile(<<Filename(w), "-url.txt">>, w, urls[w])
    /\ t_pc' = [t_pc EXCEPT ![w] =
                  IF Truthy(t_res[w].og) THEN "image_exists" ELSE "success_exists"]
    /\ wrote' = [wrote EXCEPT ![w] = @ \cup {"-url.txt"}]
    /\ UNCHANGED <<inputs, dvars, t_rule, t_response, t_res, t_image, image_requests,
                   log_dir, successes, fails>>

\* ------------------------------------------------------- save_image
\* the same check made on another path than the one the image is written to
ImagePresentElsewhere(filename) ==
    /\ Exists(<<filename, ".jpg">>)
    /\ files[<<filename, ".jpg">>].data # "empty"

\* the check made under a per-filename lock: a download of the same image
\* that is under way counts as the image being there
ImagePresentOrInFlight(filename) ==
    \/ /\ Exists(<<filename, ".png">>)
       /\ files[<<filename, ".png">>].data # "empty"
    \/ \E o \in Workers :
          /\ t_pc[o] \in {"image_get", "image_open", "image_write", "image_url"}
          /\ Filename(o) = filename

\* os.path.exists(png) and os.path.getsize(png) > 0
ImagePresent(filename) ==
    /\ Exists(<<filename, ".png">>)
    /\ files[<<filename, ".png">>].data # "empty"

\* the check at the top of save_image: skip the download, or go on to it
ImageExists(w) ==
    /\ t_pc[w] = "image_exists"
    /\ t_pc' = [t_pc EXCEPT ![w] =
                  IF ImagePresent(Filename(w)) THEN "success_exists" ELSE "image_get"]
    /\ UNCHANGED <<inputs, dvars, tlocal, shared>>

\* response = requests.get(image_url, stream=True), and what follows a response
\* that is no 200 or the except clause
ImageGet(w) ==
    /\ t_pc[w] = "image_get"
    /\ \E r \in ImgWeb(ImageUrl(w)) :
         /\ t_image' = [t_image EXCEPT ![w] = r]
         /\ t_pc' = [t_pc EXCEPT ![w] =
                       CASE r \in {"ok", "empty"} -> "image_open"
                         [] r \in {"status", "error"} -> "success_exists"
                         [] OTHER -> "image_wait"]
    /\ image_requests' = [image_requests EXCEPT ![w] = @ + 1]
    /\ UNCHANGED <<inputs, dvars, t_rule, t_response, t_res, wrote, shared>>

\* open(png, 'wb'): the file exists and is empty
ImageOpen(w) ==
    /\ t_pc[w] = "image_open"
    /\ files' = WriteFile(<<Filename(w), ".png">>, w, "empty")
    /\ t_pc' = [t_pc EXCEPT ![w] = IF t_image[w] = "ok" THEN "image_write" ELSE "image_url"]
    /\ wrote' = [wrote EXCEPT ![w] = @ \cup {".png"}]
    /\ UNCHANGED <<inputs, dvars, t_rule, t_response, t_res, t_image, image_requests,
                   log_dir, successes, fails>>

\* image_file.write(chunk) for the chunks of the response
ImageWrite(w) ==
    /\ t_pc[w] = "image_write"
    /\ files' = WriteFile(<<Filename(w), ".png">>, w, "bytes")
    /\ t_pc' = [t_pc EXCEPT ![w] = "image_url"]
    /\ wrote' = [wrote EXCEPT ![w] = @ \cup {".png"}]
    /\ UNCHANGED <<inputs, dvars, t_rule, t_response, t_res, t_image, image_requests,
                   log_dir, successes, fails>>

\* url_file.write(image_url) into FILENAME-image.txt
ImageUrlFile(w) ==
    /\ t_pc[w] = "image_url"
    /\ files' = WriteFile(<<Filename(w), "-image.txt">>, w, ImageUrl(w))
    /\ t_pc' = [t_pc EXCEPT ![w] = "success_exists"]
    /\ wrote' = [wrote EXCEPT ![w] = @ \cup {"-image.txt"}]
    /\ UNCHANGED <<inputs, dvars, t_rule, t_response, t_res, t_image, image_requests,
                   log_dir, successes, fails>>

\* ------------------------------------------------------- logging
\* if not os.path.exists(log_directory)
LogExists(w, at, mkdir, append) ==
    /\ t_pc[w] = at
    /\ t_pc' = [t_pc EXCEPT ![w] = IF log_dir THEN append ELSE mkdir]
    /\ UNCHANGED <<inputs, dvars, tlocal, shared>>

\* os.makedirs(log_directory): FileExistsError when the directory is there by now
LogMakedirs(w, at, append) ==
    /\ t_pc[w] = at
    /\ t_pc' = [t_pc EXCEPT ![w] = IF log_dir THEN "raised" ELSE append]
    /\ log_dir' = TRUE
    /\ UNCHANGED <<inputs, dvars, tlocal, files, successes, fails>>

SuccessExists(w) == LogExists(w, "success_exists", "success_makedirs", "success_append")

SuccessMakedirs(w) == LogMakedirs(w, "success_makedirs", "success_append")

\* csv_writer.writerow([url, '200', timestamp]) appended to successes.csv
SuccessAppend(w) ==
    /\ t_pc[w] = "success_append"
    /\ successes' = Append(successes, [by |-> w, url |-> urls[w], status |-> "200"])
    /\ t_pc' = [t_pc EXCEPT ![w] = "done"]
    /\ UNCHANGED <<inputs, dvars, tlocal, files, log_dir, fails>>

FailExists(w) == LogExists(w, "fail_exists", "fail_makedirs", "fail_append")

FailMakedirs(w) == LogMakedirs(w, "fail_makedirs", "fail_append")

\* fails_file.write(f'{url}\n') appended to fails.txt
FailAppend(w) ==
    /\ t_pc[w] = "fail_append"
    /\ fails' = Append(fails, [by |-> w, url |-> urls[w]])
    /\ t_pc' = [t_pc EXCEPT ![w] = "done"]
    /\ UNCHANGED <<inputs, dvars, tlocal, files, log_dir, successes>>

\* ------------------------------------------------------- specification
\* the steps of the dispatch loop
Dispatch ==
    \/ ForNext \/ Acquire \/ Start \/ SleepRaise \/ SleepTick \/ SleepDone
    \/ Release \/ Join \/ Return

\* the steps of worker w
Work(w) ==
    /\ w \in Workers
    /\ \/ Fetch(w) \/ WriteTxt(w) \/ SaveUrl(w)
       \/ ImageExists(w) \/ ImageGet(w) \/ ImageOpen(w) \/ ImageWrite(w)
       \/ ImageUrlFile(w)
       \/ SuccessExists(w) \/ SuccessMakedirs(w) \/ SuccessAppend(w)
       \/ FailExists(w) \/ FailMakedirs(w) \/ FailAppend(w)

Next ==
    \/ ForNext
    \/ Acquire
    \/ Start
    \/ SleepRaise
    \/ SleepTick
    \/ SleepDone
    \/ Release
    \/ Join
    \/ Return
    \/ \E w \in Workers : Fetch(w)
    \/ \E w \in Workers : WriteTxt(w)
    \/ \E w \in Workers : SaveUrl(w)
    \/ \E w \in Workers : ImageExists(w)
    \/ \E w \in Workers : ImageGet(w)
    \/ \E w \in Workers : ImageOpen(w)
    \/ \E w \in Workers : ImageWrite(w)
    \/ \E w \in Workers : ImageUrlFile(w)
    \/ \E w \in Workers : SuccessExists(w)
    \/ \E w \in Workers : SuccessMakedirs(w)
    \/ \E w \in Workers : SuccessAppend(w)
    \/ \E w \in Workers : FailExists(w)
    \/ \E w \in Workers : FailMakedirs(w)
    \/ \E w \in Workers : FailAppend(w)

Spec == Init /\ [][Next]_vars

\* the threads are scheduled fairly: the dispatch loop and every worker take
\* their next step when they have one
FairSpec == Spec /\ WF_vars(Dispatch) /\ \A w \in 1..MaxUrls : WF_vars(Work(w))

\* ------------------------------------------------------- properties
Range(q) == {q[k] : k \in 1..Len(q)}

\* the workers that have been started and have not terminated
Running == {w \in Workers : t_pc[w] \notin {"unstarted", "done", "raised"}}

\* C1: when crawl_websites has returned, every URL of the input has had a
\* worker launched and that worker has terminated (normally or not).
C1_ReturnsAfterAllWorkers ==
    d_pc = "returned" =>
        \A k \in 1..Len(urls) : k \in Range(threads) /\ t_pc[k] \in {"done", "raised"}

C1_Witness ==
    /\ d_pc = "returned"
    /\ Len(urls) >= 2
    /\ \E w \in Workers : t_pc[w] = "raised"
    /\ \E w \in Workers : t_pc[w] = "done"

\* C2: under fair scheduling every run ends with crawl_websites returning.
C2_RunReturns == <>(d_pc = "returned")

Count(log, w) == Cardinality({k \in 1..Len(log) : log[k].by = w})

FetchFailed(w) == t_response[w].kind \in {"timeout", "error", "status"}

\* C4: a worker whose fetch failed creates no artifact file, appends exactly
\* one line, with its URL, to fails.txt and appends no success record.
C4_FailedFetchLogsOnce ==
    \A w \in Workers :
        Finished(w) /\ FetchFailed(w) =>
            /\ wrote[w] = {}
            /\ Count(fails, w) = 1
            /\ \A k \in 1..Len(fails) : fails[k].by = w => fails[k].url = urls[w]
            /\ Count(successes, w) = 0

\* the page was fetched and parsed, and its body is empty or the sentinel
NoUsableBody(w) ==
    /\ t_response[w].kind = "page"
    /\ ~t_res[w].raised
    /\ (~Truthy(t_res[w].body) \/ t_res[w].body.s = NoBody)

\* C5: a worker whose page yields no usable body (empty, or the sentinel
\* "No Body") records a failure, writes no artifact and appends no success
\* record, whatever the title.
C5_DegenerateIsFailure ==
    \A w \in Workers :
        Finished(w) /\ NoUsableBody(w) =>
            /\ Count(fails, w) = 1
            /\ wrote[w] = {}
            /\ Count(successes, w) = 0

\* C6: one worker per URL, in input order: worker k is the k-th thread, and
\* the number of threads launched depends on the position of the dispatch
\* loop alone, never on how the earlier workers ended; after the loop it is
\* the number of URLs.
C6_OneWorkerPerUrlInOrder ==
    /\ \A k \in 1..Len(threads) : threads[k] = k
    /\ Len(threads) =
         CASE d_pc \in {"for", "acquire", "start"} -> i - 1
           [] d_pc \in {"sleep", "release", "raised"} -> i
           [] OTHER -> Len(urls)

C6_Witness ==
    /\ d_pc = "returned"
    /\ Len(urls) >= 2
    /\ t_pc[1] = "raised"
    /\ t_pc[2] = "done"
    /\ Count(successes, 2) = 1

\* C7: when two workers for distinct URLs with the same filename have both
\* finished, the files under that filename were all last written by the same
\* one of the two.
C7_OneArtifactSetSurvives ==
    \A w1, w2 \in Workers :
        /\ urls[w1] # urls[w2]
        /\ t_pc[w1] = "done" /\ t_pc[w2] = "done"
        /\ {".txt", "-url.txt"} \subseteq (wrote[w1] \cap wrote[w2])
        /\ Filename(w1) = Filename(w2)
        => \A suffix \in {"-url.txt", ".png", "-image.txt"} :
              <<Filename(w1), suffix>> \in DOMAIN files =>
                  files[<<Filename(w1), suffix>>].by = files[<<Filename(w1), ".txt">>].by

\* C8: a logging call never fails: a worker that got to its logging call
\* (its extraction did not raise) and has terminated returned normally and
\* its one record is in the sink.
C8_LoggingNeverFails ==
    \A w \in Workers :
        Finished(w) /\ ~t_res[w].raised =>
            /\ t_pc[w] = "done"
            /\ Count(successes, w) + Count(fails, w) = 1

\* C9: a worker whose image request failed (a status other than 200, or a
\* RequestException) ends with its text artifact and URL sidecar written,
\* exactly one success record and no failure record.
C9_ImageFailureKeepsSuccess ==
    \A w \in Workers :
        Finished(w) /\ t_image[w] \in {"status", "error"} =>
            /\ {".txt", "-url.txt"} \subseteq wrote[w]
            /\ Count(successes, w) = 1
            /\ Count(fails, w) = 0

\* C10: a worker that enters save_image while a non-empty image file exists
\* for its filename issues no image request and writes no file: its next
\* step leaves save_image with the files as they were.
C10_ExistingImageSkipsDownload ==
    [][\A w \in Workers :
          /\ t_pc[w] = "image_exists"
          /\ t_pc'[w] # "image_exists"
          /\ <<Filename(w), ".png">> \in DOMAIN files
          /\ files[<<Filename(w), ".png">>].data = "bytes"
          => /\ t_pc'[w] = "success_exists"
             /\ image_requests'[w] = 0
             /\ files' = files]_vars

C10_Witness ==
    \E w \in Workers :
        /\ t_pc[w] = "done"
        /\ Truthy(t_res[w].og)
        /\ image_requests[w] = 0
        /\ wrote[w] = {".txt", "-url.txt"}
        /\ <<Filename(w), ".png">> \in DOMAIN files
        /\ files[<<Filename(w), ".png">>].data = "bytes"
        /\ files[<<Filename(w), ".png">>].by # w

\* C11: at every point of a run the number of held units of the gate,
\* max_threads - semaphore, is between 0 and max_threads, and so is the number
\* of free units.
C11_HeldSlotsBounded ==
    /\ 0 <= semaphore /\ semaphore <= max_threads
    /\ 0 <= max_threads - semaphore /\ max_threads - semaphore <= max_threads

C11_Witness ==
    /\ d_pc = "sleep"
    /\ max_threads = 1
    /\ semaphore = 0
    /\ Len(threads) = 2
    /\ Cardinality(Running) = 2

\* ------------------------------------------------------- extraction alone
\* The pages get_page_content_with_rule is applied to when it is checked on
\* its own: every combination of these elements.
H1s == {Absent, Elem(<<>>), Elem(<<"a">>)}
Sels == {<<>>, <<<<" ">>>>, <<<<"x">>>>, <<<<"x">>, <<"y">>>>}
Metas ==
    {Absent, NoAttr, Elem(<<>>), Elem(<<" ">>), Elem(<<"m">>), Elem(<<" ", "m", " ">>),
     Elem(<<"<", "b", ">", "m">>), Elem(<<"S", "x", "/S", "m">>)}
Ps == {Absent, Elem(<<>>), Elem(<<"p">>)}
Ogs == {Absent, NoAttr, Elem(<<>>), Elem(<<"i">>)}
Pages ==
    {Page(h1, sel, meta, p, og) : h1 \in H1s, sel \in Sels, meta \in Metas, p \in Ps, og \in Ogs}
Rules == {<<>>, <<".", "c">>}

\* one worker just started by the dispatch loop, with any rule
ExtractInit ==
    /\ urls = <<UrlBare>>
    /\ max_threads = 1
    /\ title_search = <<>>
    /\ title_replace = <<>>
    /\ d_pc = "sleep"
    /\ i = 1
    /\ delay = 0
    /\ sleep_left = 0
    /\ now = 0
    /\ semaphore = 0
    /\ threads = <<1>>
    /\ launched_at = <<0>>
    /\ j = 1
    /\ t_pc = [w \in Workers |-> "fetch"]
    /\ t_rule \in [Workers -> Rules]
    /\ t_response = [w \in Workers |-> NoResponse]
    /\ t_res = [w \in Workers |-> Returned3(None, None, None)]
    /\ t_image = [w \in Workers |-> "none"]
    /\ image_requests = [w \in Workers |-> 0]
    /\ wrote = [w \in Workers |-> {}]
    /\ files = <<>>
    /\ log_dir = FALSE
    /\ successes = <<>>
    /\ fails = <<>>

\* the worker's page request ends with a 200 and one of the pages
Extract ==
    /\ t_pc[1] = "fetch"
    /\ \E response \in Pages : Fetched(1, response)
    /\ UNCHANGED <<inputs, dvars, t_rule, t_image, image_requests, wrote, shared>>

SpecExtract == ExtractInit /\ [][Extract]_vars

\* C12: for every page fetched with status 200, get_page_content_with_rule
\* returns a triple: the worker is not terminated by an exception.
C12_ExtractionNeverRaises ==
    \A w \in Workers :
        t_response[w].kind = "page" => ~t_res[w].raised /\ t_pc[w] # "raised"

\* no rule is given, or the rule selects no element
NoRuleMatch(w) == t_rule[w] = <<>> \/ t_response[w].sel = <<>>

TitleChars == {"/", "\\", ":", "*", "?", "\"", "<", ">", "|", "a", " "}

Titles == SeqsUpTo(TitleChars, MaxTitleLen)

\* one worker that has extracted any title and a body and is about to write
FilenameInit ==
    /\ urls = <<UrlBare>>
    /\ max_threads = 1
    /\ \E tr \in Transforms : title_search = tr[1] /\ title_replace = tr[2]
    /\ d_pc = "sleep"
    /\ i = 1
    /\ delay = 0
    /\ sleep_left = 0
    /\ now = 0
    /\ semaphore = 0
    /\ threads = <<1>>
    /\ launched_at = <<0>>
    /\ j = 1
    /\ t_pc = [w \in Workers |-> "write_txt"]
    /\ t_rule = [w \in Workers |-> <<>>]
    /\ \E title \in Titles \ {<<>>} :
         /\ t_response =
              [w \in Workers |-> Page(Elem(title), <<>>, Absent, Elem(<<"x">>), Absent)]
         /\ t_res = [w \in Workers |-> Returned3(Str(title), Str(<<"x">>), None)]
    /\ t_image = [w \in Workers |-> "none"]
    /\ image_requests = [w \in Workers |-> 0]
    /\ wrote = [w \in Workers |-> {}]
    /\ files = <<>>
    /\ log_dir = FALSE
    /\ successes = <<>>
    /\ fails = <<>>

\* the worker derives the filename and writes the text file
WriteFirst == WriteTxt(1)

SpecFilename == FilenameInit /\ [][WriteFirst]_vars

\* the characters the filename is said to be free of
ClaimedInvalid == {"/", "\\", ":", "*", "?", "\"", "<", ">", "|"}

\* C14: the filename a worker writes under is its title without the
\* characters / \ : * ? " < > | and with every other character kept, it
\* contains none of them, and cleaning it again changes nothing.
C14_CleanFilenameRemovesInvalid ==
    \A path \in DOMAIN files :
        path[2] = ".txt" =>
            LET w == files[path].by
            IN  /\ path[1] = SelectSeq(Title(w), LAMBDA c : c \notin ClaimedInvalid)
                /\ \A k \in 1..Len(path[1]) : path[1][k] \notin ClaimedInvalid
                /\ clean_filename(path[1]) = path[1]

\* ------------------------------------------------------- order of the writes
\* the steps of save_image
ImageStages ==
    {"image_exists", "image_get", "image_open", "image_write", "image_url", "image_wait"}

\* C15: when a worker is about to issue the image download, the text file and
\* the success row of its URL have been written.
C15_SuccessLoggedBeforeImage ==
    \A w \in Workers :
        t_pc[w] = "image_get" => ".txt" \in wrote[w] /\ Count(successes, w) >= 1

\* C15, amended: while a worker is in save_image (the download included) the
\* text file and the URL sidecar have been written and no success row of its
\* URL has been appended yet.
C15_ImageBeforeSuccessRecord ==
    \A w \in Workers :
        t_pc[w] \in ImageStages =>
            /\ {".txt", "-url.txt"} \subseteq wrote[w]
            /\ Count(successes, w) = 0

C15_Witness ==
    \E w \in Workers :
        /\ t_pc[w] = "image_get"
        /\ ".txt" \in wrote[w]
        /\ Count(successes, w) = 0

\* ------------------------------------------------------- the image race
\* C16: the check at the top of save_image looks at the file alone: a worker
\* leaves it for the download exactly when the .png is missing or empty,
\* whatever the other workers of the same filename are doing, so two workers
\* of one filename can both pass it and both download and write.
C16_CheckLooksAtFileOnly ==
    [][\A w \in Workers :
         (t_pc[w] = "image_exists" /\ t_pc'[w] # "image_exists") =>
            (t_pc'[w] = "image_get" <=>
               ~(/\ <<Filename(w), ".png">> \in DOMAIN files
                 /\ files[<<Filename(w), ".png">>].data # "empty"))]_vars

\* two workers of one filename have both issued a download and both written
\* the .png and the -image.txt of that filename
C16_Witness ==
    \E w \in Workers : \E o \in Workers :
        /\ w # o
        /\ Filename(w) = Filename(o)
        /\ image_requests[w] = 1 /\ image_requests[o] = 1
        /\ {".png", "-image.txt"} \subseteq wrote[w]
        /\ {".png", "-image.txt"} \subseteq wrote[o]

\* ------------------------------------------------------- pacing
\* C17: the worker of the next URL is launched no earlier than the delay of
\* the host of the URL before it after that URL's launch, and any two launches
\* for one host are at least that host's delay apart.
C17_LaunchesArePaced ==
    /\ \A k \in 1..(Len(launched_at) - 1) :
         launched_at[k + 1] - launched_at[k] >= get_delay(hostname(urls[threads[k]]))
    /\ \A k \in 1..Len(launched_at) : \A m \in 1..Len(launched_at) :
         (k < m /\ hostname(urls[threads[k]]) = hostname(urls[threads[m]])) =>
            launched_at[m] - launched_at[k] >= get_delay(hostname(urls[threads[k]]))

\* two launches for a host with a positive delay, that delay apart
C17_Witness ==
    /\ Len(launched_at) >= 2
    /\ hostname(urls[threads[1]]) = hostname(urls[threads[2]])
    /\ get_delay(hostname(urls[threads[1]])) > 0
    /\ launched_at[2] - launched_at[1] = get_delay(hostname(urls[threads[1]]))

\* ------------------------------------------------------- outcome records
\* C18: when crawl_websites has returned, every URL occurrence has exactly
\* one outcome record: one row in successes.csv or one line in fails.txt,
\* never both and never none.
C18_OneOutcomeRecordPerUrl ==
    d_pc = "returned" =>
        \A w \in Workers : Count(successes, w) + Count(fails, w) = 1

\* ------------------------------------------------------- the gate, again
\* the time of the k-th launch as the URL list alone gives it: the delays of
\* the hosts of the URLs launched before it, added up
RECURSIVE LaunchTime(_)
LaunchTime(k) ==
    IF k = 1 THEN 0 ELSE LaunchTime(k - 1) + get_delay(hostname(urls[k - 1]))

C20_RecordsMatchWrites ==
    \A w \in Workers :
        /\ Count(successes, w) >= 1 => {".txt", "-url.txt"} \subseteq wrote[w]
        /\ Count(fails, w) >= 1 => wrote[w] = {}

\* one URL occurrence has its success row and another its line in fails.txt
C20_Witness ==
    \E w \in Workers : \E o \in Workers :
        /\ Count(successes, w) = 1
        /\ {".txt", "-url.txt"} \subseteq wrote[w]
        /\ Count(fails, o) = 1
        /\ wrote[o] = {}

====
